---- MODULE Spec2Model ----
(***************************************************************************)
(* Model of the move-cooldown validator of src/basic_sample.js:            *)
(* processPlayerMove and the two handlers that call it, updatePlayerMove   *)
(* and RoomEventRaised, running against the PlayFab player store (internal *)
(* data and statistics).  Time is in milliseconds, as Date.now() gives it. *)
(***************************************************************************)
EXTENDS Integers, Sequences, FiniteSets, TLC

\* ---------------------------------------------------------------- bounds
\* Invocations of a handler in one behaviour.
MaxInvocations == 2

\* Instants (ms since the epoch) the wall clock is observed at.
Instants == {0, 999, 15000}

\* The handler executions that can be in flight at the same time.
Procs == {1, 2}

\* ------------------------------------------------------------- constants
playerMoveCooldownInSeconds == 15

MsPerSecond == 1000

\* ------------------------------------------------------------ JS values
\* currentPlayerId: the authenticated player, or undefined.
PlayerP == "P"
UndefinedId == "undefined"
PlayerIds == {PlayerP, UndefinedId}

\* Handler arguments.  def = FALSE is the JS value undefined.
UndefinedPayload == [def |-> FALSE, eventType |-> "", dir |-> ""]
MoveN == [def |-> TRUE, eventType |-> "playerMove", dir |-> "N"]
MoveS == [def |-> TRUE, eventType |-> "playerMove", dir |-> "S"]
Chat == [def |-> TRUE, eventType |-> "chat", dir |-> ""]
MovePayloads == {UndefinedPayload, MoveN, MoveS}
EventPayloads == {UndefinedPayload, MoveN, Chat}

\* JSON.stringify(playerMove); JSON.stringify(undefined) is undefined.
JSONstringify(m) ==
    IF ~m.def THEN "undefined"
    ELSE "{eventType:" \o m.eventType \o ",dir:" \o m.dir \o "}"

\* A value of the key last_move_timestamp in the player's internal data:
\* absent, a string that is no date, or a string written by toUTCString,
\* which carries day, month, year, hours, minutes and seconds and no
\* milliseconds ("Thu, 01 Jan 1970 00:00:15 GMT").
AbsentSetting == [t |-> "absent", sec |-> 0]
GarbageSetting == [t |-> "garbage", sec |-> 0]

\* new Date(now).toUTCString()
toUTCString(ms) == [t |-> "utc", sec |-> ms \div MsPerSecond]

\* Date.parse(value): milliseconds, or NaN for a string that is no date.
NaN == [nan |-> TRUE, ms |-> 0]
DateParse(s) ==
    IF s.t = "utc" THEN [nan |-> FALSE, ms |-> s.sec * MsPerSecond] ELSE NaN

\* TooSoon with the comparison <= in place of <.
TooSoonStrict(nowMs, setting, move) ==
    /\ setting.t # "absent"
    /\ ~DateParse(setting).nan
    /\ nowMs - DateParse(setting).ms <= playerMoveCooldownInSeconds * MsPerSecond

\* TooSoon that also rejects a timestamp that does not parse.
TooSoonFailClosed(nowMs, setting, move) ==
    /\ setting.t # "absent"
    /\ \/ DateParse(setting).nan
       \/ nowMs - DateParse(setting).ms < playerMoveCooldownInSeconds * MsPerSecond

\* TooSoon that also rejects one of the move payloads.
TooSoonPayload(nowMs, setting, move) ==
    \/ move = MoveS
    \/ /\ setting.t # "absent"
       /\ ~DateParse(setting).nan
       /\ nowMs - DateParse(setting).ms < playerMoveCooldownInSeconds * MsPerSecond

\* The cooldown test of processPlayerMove, which has playerMove in scope:
\* if (lastMoveTimestampSetting) { ...; if (timeSince < cooldown) return false }
\* with timeSince = (now - Date.parse(Value)) / 1000.  A comparison with NaN
\* is false.
TooSoon(nowMs, setting, move) ==
    /\ setting.t # "absent"
    /\ ~DateParse(setting).nan
    /\ nowMs - DateParse(setting).ms < playerMoveCooldownInSeconds * MsPerSecond

\* for (i...) if (playerStats[i].StatisticName === "") movesMade = ...Value
RECURSIVE ScanStats(_, _, _)
ScanStats(playerStats, i, acc) ==
    IF i > Len(playerStats) THEN acc
    ELSE ScanStats(playerStats, i + 1,
                   IF playerStats[i].StatisticName = ""
                   THEN playerStats[i].Value ELSE acc)

\* var movesMade = 0; the loop; movesMade += 1
NextMovesMade(playerStats) == ScanStats(playerStats, 1, 0) + 1

\* The store's UpdatePlayerStatistics for one statistic: the value replaces
\* the one stored under that name, or the statistic is created.
RECURSIVE HasStat(_, _)
HasStat(stats, name) ==
    IF stats = <<>> THEN FALSE
    ELSE Head(stats).StatisticName = name \/ HasStat(Tail(stats), name)

SetStat(stats, name, value) ==
    IF HasStat(stats, name)
    THEN [i \in 1..Len(stats) |->
            IF stats[i].StatisticName = name
            THEN [StatisticName |-> name, Value |-> value] ELSE stats[i]]
    ELSE Append(stats, [StatisticName |-> name, Value |-> value])

\* The value of a statistic as a reader sees it, 0 if absent.
RECURSIVE StatValue(_, _)
StatValue(stats, name) ==
    IF stats = <<>> THEN 0
    ELSE IF Head(stats).StatisticName = name THEN Head(stats).Value
    ELSE StatValue(Tail(stats), name)

\* ----------------------------------------------------------------- state
VARIABLES
    clock,            \* what Date.now() returns
    internalData,     \* player P's internal data: last_move_timestamp, last_move
    statistics,       \* player P's statistics, as GetPlayerStatistics lists them
    pc,               \* per execution: the statement it is at
    handler,          \* per execution: the handler that is running
    currentPlayerId,  \* per execution: the ambient player id
    playerMove,       \* per execution: processPlayerMove's argument
    now,              \* per execution: var now
    lastMoveTimestampSetting, \* per execution: the value read at line 181
    movesMade,        \* per execution: var movesMade
    result,           \* per execution: what processPlayerMove returned
    response,         \* per execution: what the handler's caller receives
    calls,            \* per execution: the server calls it has made, in order
    writes,           \* per execution: the writes the store has applied for it
    failed,           \* per execution: the server call the store failed, or "none"
    accepted,         \* history: the now of every processPlayerMove that returned true
    statBefore,       \* per execution: the statistic movesMade when it started
    lastAccepted,     \* per execution: the last element of accepted when it started, or -1
    invocations,      \* handler invocations so far
    friends,          \* the store's friendships: sets {player, friend}
    addFriend         \* per execution: the AddFriendToPlayer call it runs

locals == <<pc, handler, currentPlayerId, playerMove, now,
            lastMoveTimestampSetting, movesMade, result, response, calls,
            writes, failed, statBefore, lastAccepted>>
store == <<internalData, statistics>>
vars == <<clock, internalData, statistics, pc, handler, currentPlayerId,
          playerMove, now, lastMoveTimestampSetting, movesMade, result,
          response, calls, writes, failed, accepted, statBefore,
          lastAccepted, invocations, friends, addFriend>>
moveVars == <<clock, internalData, statistics, pc, handler, currentPlayerId,
              playerMove, now, lastMoveTimestampSetting, movesMade, result,
              response, calls, writes, failed, accepted, statBefore,
              lastAccepted, invocations>>
friendVars == <<friends, addFriend>>

\* Players that add each other as friends.
FriendPlayers == {"A", "B", "C"}

\* ex.apiErrorInfo.apiError.errorCode of a failed server.AddFriend.
UsersAlreadyFriends == 1183
ConcurrentEditError == 1133

\* No error: the call succeeded.
NoError == 0

\* Failures of server.AddFriend other than the two above: two other API
\* error codes.
OtherErrorCodes == {1000, 1001}

\* An execution that runs no AddFriendToPlayer.
NoAddFriend == [pc |-> "idle", playerId |-> "", friendId |-> "",
                errorCode |-> NoError, ret |-> "none"]

\* AddFriendToPlayer with the case ConcurrentEditError missing.
AddFriendResultNoConcurrent(errorCode) ==
    IF errorCode = NoError THEN "true"
    ELSE IF errorCode = UsersAlreadyFriends THEN "false"
    ELSE "threw"

\* try { server.AddFriend(...) } catch (ex) { switch (errorCode) ... } return true
\* what AddFriendToPlayer does with the outcome of server.AddFriend.
AddFriendResult(errorCode) ==
    IF errorCode = NoError THEN "true"
    ELSE IF errorCode \in {UsersAlreadyFriends, ConcurrentEditError} THEN "false"
    ELSE "threw"

\* Statements an execution is not running at.
Idle == {"idle", "returned", "threw"}

InFlight(p) == pc[p] \notin Idle

\* The player has never moved (no timestamp, or one that some other writer
\* left unparseable), or has made one accepted move, at instant 0.
Init ==
    /\ clock = 0
    /\ \/ /\ internalData \in
                {[last_move_timestamp |-> s, last_move |-> "undefined"] :
                   s \in {AbsentSetting, GarbageSetting}}
          /\ statistics = <<[StatisticName |-> "Level", Value |-> 2]>>
          /\ accepted = <<>>
       \/ /\ internalData = [last_move_timestamp |-> toUTCString(0),
                              last_move |-> JSONstringify(MoveN)]
          /\ statistics = <<[StatisticName |-> "movesMade", Value |-> 1]>>
          /\ accepted = <<0>>
    /\ pc = [p \in Procs |-> "idle"]
    /\ handler = [p \in Procs |-> "none"]
    /\ currentPlayerId = [p \in Procs |-> UndefinedId]
    /\ playerMove = [p \in Procs |-> UndefinedPayload]
    /\ now = [p \in Procs |-> 0]
    /\ lastMoveTimestampSetting = [p \in Procs |-> AbsentSetting]
    /\ movesMade = [p \in Procs |-> 0]
    /\ result = [p \in Procs |-> "none"]
    /\ response = [p \in Procs |-> "none"]
    /\ calls = [p \in Procs |-> <<>>]
    /\ writes = [p \in Procs |-> {}]
    /\ failed = [p \in Procs |-> "none"]
    /\ statBefore = [p \in Procs |-> 0]
    /\ lastAccepted = [p \in Procs |-> -1]
    /\ invocations = 0
    /\ friends = {}
    /\ addFriend = [p \in Procs |-> NoAddFriend]

\* The wall clock advances.
Tick ==
    /\ \E t \in Instants : t > clock /\ clock' = t
    /\ UNCHANGED <<store, locals, accepted, invocations, friendVars>>

\* What the caller of the handler receives when processPlayerMove returns.
Respond(h, validMove) ==
    IF h = "updatePlayerMove"
    THEN (IF validMove THEN "{validMove:true}" ELSE "{validMove:false}")
    ELSE "undefined"

\* A handler starts and enters processPlayerMove: var now = Date.now().
Enter(p, h, id, move) ==
    /\ pc[p] \in Idle
    /\ invocations < MaxInvocations
    /\ invocations' = invocations + 1
    /\ handler' = [handler EXCEPT ![p] = h]
    /\ currentPlayerId' = [currentPlayerId EXCEPT ![p] = id]
    /\ playerMove' = [playerMove EXCEPT ![p] = move]
    /\ now' = [now EXCEPT ![p] = clock]
    /\ lastMoveTimestampSetting' = [lastMoveTimestampSetting EXCEPT ![p] = AbsentSetting]
    /\ movesMade' = [movesMade EXCEPT ![p] = 0]
    /\ result' = [result EXCEPT ![p] = "none"]
    /\ calls' = [calls EXCEPT ![p] = <<>>]
    /\ writes' = [writes EXCEPT ![p] = {}]
    /\ failed' = [failed EXCEPT ![p] = "none"]
    /\ statBefore' = [statBefore EXCEPT ![p] = StatValue(statistics, "movesMade")]
    /\ lastAccepted' = [lastAccepted EXCEPT ![p] =
                          IF accepted = <<>> THEN -1 ELSE accepted[Len(accepted)]]
    /\ UNCHANGED <<clock, store, accepted, friendVars>>

\* handlers.updatePlayerMove(args)
updatePlayerMove(p) ==
    \E id \in PlayerIds, args \in MovePayloads :
        /\ Enter(p, "updatePlayerMove", id, args)
        /\ pc' = [pc EXCEPT ![p] = "GetUserInternalData"]
        /\ response' = [response EXCEPT ![p] = "none"]

\* RoomEventRaised without the switch: every defined event enters
\* processPlayerMove.
RoomEventRaisedAnyTag(p) ==
    \E id \in PlayerIds, eventData \in EventPayloads :
        /\ Enter(p, "RoomEventRaised", id, eventData)
        /\ pc' = [pc EXCEPT ![p] =
                    IF ~eventData.def THEN "threw" ELSE "GetUserInternalData"]
        /\ response' = [response EXCEPT ![p] =
                    IF ~eventData.def THEN "error" ELSE "none"]

\* handlers.RoomEventRaised(args), args.Data ranging over EventPayloads.
\* Reading eventData.eventType of an undefined args.Data throws; an event
\* type other than "playerMove" falls to the default case and returns.
RoomEventRaised(p) ==
    \E id \in PlayerIds, eventData \in EventPayloads :
        /\ Enter(p, "RoomEventRaised", id, eventData)
        /\ pc' = [pc EXCEPT ![p] =
                    IF ~eventData.def THEN "threw"
                    ELSE IF eventData.eventType = "playerMove"
                         THEN "GetUserInternalData"
                         ELSE "returned"]
        /\ response' = [response EXCEPT ![p] =
                    IF ~eventData.def THEN "error"
                    ELSE IF eventData.eventType = "playerMove" THEN "none"
                         ELSE "undefined"]

\* Throw with the error caught and the move reported as valid.
ThrowSwallowed(p) ==
    /\ pc' = [pc EXCEPT ![p] = "returned"]
    /\ response' = [response EXCEPT ![p] = Respond(handler[p], TRUE)]

\* A server call fails: it throws, nothing catches it in processPlayerMove
\* or in the handlers, and the handler's caller receives the error.
Throw(p) ==
    /\ pc' = [pc EXCEPT ![p] = "threw"]
    /\ response' = [response EXCEPT ![p] = "error"]

\* processPlayerMove returns validMove to the handler, which returns.
Return(p, validMove) ==
    /\ pc' = [pc EXCEPT ![p] = "returned"]
    /\ result' = [result EXCEPT ![p] = IF validMove THEN "true" ELSE "false"]
    /\ response' = [response EXCEPT ![p] = Respond(handler[p], validMove)]

\* server.GetUserInternalData({PlayFabId: currentPlayerId, Keys: [...]}),
\* then the cooldown test.  The store has no player for an undefined id.
GetUserInternalData(p) ==
    /\ pc[p] = "GetUserInternalData"
    /\ calls' = [calls EXCEPT ![p] = Append(@, "GetUserInternalData")]
    /\ \E ok \in BOOLEAN :
         IF ~ok \/ currentPlayerId[p] = UndefinedId
         THEN /\ failed' = [failed EXCEPT ![p] = "GetUserInternalData"]
              /\ Throw(p)
              /\ UNCHANGED <<lastMoveTimestampSetting, result>>
         ELSE /\ lastMoveTimestampSetting' =
                   [lastMoveTimestampSetting EXCEPT ![p] =
                      internalData.last_move_timestamp]
              /\ IF TooSoon(now[p], internalData.last_move_timestamp, playerMove[p])
                 THEN Return(p, FALSE)
                 ELSE /\ pc' = [pc EXCEPT ![p] = "GetPlayerStatistics"]
                      /\ UNCHANGED <<result, response>>
              /\ UNCHANGED failed
    /\ UNCHANGED <<friendVars, clock, store, handler, currentPlayerId, playerMove, now,
                   movesMade, writes, accepted, statBefore, lastAccepted, invocations>>

\* server.GetPlayerStatistics({PlayFabId}).Statistics, the loop, movesMade += 1
GetPlayerStatistics(p) ==
    /\ pc[p] = "GetPlayerStatistics"
    /\ calls' = [calls EXCEPT ![p] = Append(@, "GetPlayerStatistics")]
    /\ \E ok \in BOOLEAN :
         IF ~ok
         THEN /\ failed' = [failed EXCEPT ![p] = "GetPlayerStatistics"]
              /\ Throw(p)
              /\ UNCHANGED movesMade
         ELSE /\ movesMade' = [movesMade EXCEPT ![p] = NextMovesMade(statistics)]
              /\ pc' = [pc EXCEPT ![p] = "UpdatePlayerStatistics"]
              /\ UNCHANGED <<response, failed>>
    /\ UNCHANGED <<friendVars, clock, store, handler, currentPlayerId, playerMove, now,
                   lastMoveTimestampSetting, result, writes, accepted,
                   statBefore, lastAccepted, invocations>>

\* server.UpdatePlayerStatistics(request)
UpdatePlayerStatistics(p) ==
    /\ pc[p] = "UpdatePlayerStatistics"
    /\ calls' = [calls EXCEPT ![p] = Append(@, "UpdatePlayerStatistics")]
    /\ \E ok \in BOOLEAN :
         IF ~ok
         THEN /\ failed' = [failed EXCEPT ![p] = "UpdatePlayerStatistics"]
              /\ Throw(p)
              /\ UNCHANGED <<statistics, writes>>
         ELSE /\ statistics' = SetStat(statistics, "movesMade", movesMade[p])
              /\ writes' = [writes EXCEPT ![p] = @ \cup {"statistics"}]
              /\ pc' = [pc EXCEPT ![p] = "UpdateUserInternalData"]
              /\ UNCHANGED <<response, failed>>
    /\ UNCHANGED <<friendVars, clock, internalData, handler, currentPlayerId, playerMove,
                   now, lastMoveTimestampSetting, movesMade, result, accepted,
                   statBefore, lastAccepted, invocations>>

\* server.UpdateUserInternalData({... last_move_timestamp, last_move}); return true
UpdateUserInternalData(p) ==
    /\ pc[p] = "UpdateUserInternalData"
    /\ calls' = [calls EXCEPT ![p] = Append(@, "UpdateUserInternalData")]
    /\ \E ok \in BOOLEAN :
         IF ~ok
         THEN /\ failed' = [failed EXCEPT ![p] = "UpdateUserInternalData"]
              /\ Throw(p)
              /\ UNCHANGED <<internalData, writes, result, accepted>>
         ELSE /\ internalData' =
                   [last_move_timestamp |-> toUTCString(now[p]),
                    last_move |-> JSONstringify(playerMove[p])]
              /\ writes' = [writes EXCEPT ![p] = @ \cup {"internalData"}]
              /\ accepted' = Append(accepted, now[p])
              /\ Return(p, TRUE)
              /\ UNCHANGED failed
    /\ UNCHANGED <<friendVars, clock, statistics, handler, currentPlayerId, playerMove,
                   now, lastMoveTimestampSetting, movesMade, statBefore,
                   lastAccepted, invocations>>

\* handlers.AddFriendToPlayer(args) starts: server.AddFriend is called.
AddFriendToPlayer(p) ==
    /\ addFriend[p].pc # "AddFriend"
    /\ \E playerId \in FriendPlayers :
       \E friendId \in FriendPlayers \ {playerId} :
         addFriend' = [addFriend EXCEPT ![p] =
                         [pc |-> "AddFriend", playerId |-> playerId,
                          friendId |-> friendId, errorCode |-> NoError,
                          ret |-> "none"]]
    /\ UNCHANGED <<friends, moveVars>>

\* The outcomes the store can give server.AddFriend, as the comment at the
\* case labels describes them: the first of two players to add the other
\* updates both friends lists; the other finds the friend already in the
\* list (UsersAlreadyFriends) or the list being modified (ConcurrentEditError).
AddFriendOutcomes(p) ==
    LET pair == {addFriend[p].playerId, addFriend[p].friendId}
    IN  (IF pair \in friends THEN {UsersAlreadyFriends} ELSE {NoError})
        \cup (IF \E q \in Procs \ {p} : addFriend[q].pc = "AddFriend"
              THEN {ConcurrentEditError} ELSE {})
        \cup OtherErrorCodes

\* server.AddFriend completes and AddFriendToPlayer returns or throws.
AddFriendCompletes(p) ==
    /\ addFriend[p].pc = "AddFriend"
    /\ \E errorCode \in AddFriendOutcomes(p) :
         /\ friends' = IF errorCode = NoError
                       THEN friends \cup {{addFriend[p].playerId, addFriend[p].friendId}}
                       ELSE friends
         /\ addFriend' = [addFriend EXCEPT ![p] =
               [@ EXCEPT !.errorCode = errorCode,
                         !.pc = IF AddFriendResult(errorCode) = "threw"
                                THEN "threw" ELSE "returned",
                         !.ret = IF AddFriendResult(errorCode) = "threw"
                                 THEN "none" ELSE AddFriendResult(errorCode)]]
    /\ UNCHANGED moveVars

FriendsNext ==
    \E p \in Procs : AddFriendToPlayer(p) \/ AddFriendCompletes(p)

\* The AddFriendToPlayer handler alone, against the friends lists.
SpecFriends == Init /\ [][FriendsNext]_vars

\* One step of execution p.
Step(p) ==
    \/ updatePlayerMove(p)
    \/ RoomEventRaised(p)
    \/ GetUserInternalData(p)
    \/ GetPlayerStatistics(p)
    \/ UpdatePlayerStatistics(p)
    \/ UpdateUserInternalData(p)

Next ==
    \/ Tick
    \/ \E p \in Procs : Step(p)

Spec == Init /\ [][Next]_vars

\* The executions one after the other: a handler starts only when no other
\* execution is in flight.
SeqNext ==
    \/ Tick
    \/ \E p \in Procs : (\A q \in Procs \ {p} : ~InFlight(q)) /\ Step(p)

SpecSeq == Init /\ [][SeqNext]_vars

TypeOK ==
    /\ clock \in Instants
    /\ pc \in [Procs -> Idle \cup {"GetUserInternalData", "GetPlayerStatistics",
                                   "UpdatePlayerStatistics", "UpdateUserInternalData"}]
    /\ result \in [Procs -> {"none", "true", "false"}]
    /\ invocations \in 0..MaxInvocations

\* ---------------------------------------------------------------- claims
CooldownMs == playerMoveCooldownInSeconds * MsPerSecond

\* Execution p has read the player's data and decided the cooldown test.
CheckedCooldown(p) ==
    \/ Len(calls[p]) >= 2
    \/ Len(calls[p]) = 1 /\ pc[p] = "returned"

\* C1: with the invocations run one after the other, the step by which an
\* invocation returns true leaves the statistic movesMade exactly 1 greater
\* than it was when the invocation started.
C1_MovesMadeIncremented ==
    [][ \A p \in Procs :
          (result[p] # "true" /\ result'[p] = "true")
          => StatValue(statistics', "movesMade") = statBefore[p] + 1 ]_vars

\* C2: the now instants of any two invocations that returned true are at
\* least 15 seconds apart.
C2_AcceptedCooldownApart ==
    \A i, j \in 1..Len(accepted) :
        i < j => \/ accepted[j] - accepted[i] >= CooldownMs
                 \/ accepted[i] - accepted[j] >= CooldownMs

\* C3: with the invocations run one after the other, an invocation that
\* finds a prior timestamp less than 15 seconds of real time after the last
\* accepted move applies no write and, when it returns, returns false.
C3_RejectedWithinCooldown ==
    \A p \in Procs :
        ( /\ CheckedCooldown(p)
          /\ lastMoveTimestampSetting[p].t = "utc"
          /\ lastAccepted[p] >= 0
          /\ now[p] - lastAccepted[p] < CooldownMs )
        => /\ writes[p] = {}
           /\ pc[p] = "returned" => result[p] = "false"

\* C4: an invocation that reads a timestamp 15 seconds or more before its
\* now is not rejected, and returns true when it returns.
C4_AcceptedAtOrAfterCooldown ==
    \A p \in Procs :
        ( /\ CheckedCooldown(p)
          /\ lastMoveTimestampSetting[p].t = "utc"
          /\ now[p] - DateParse(lastMoveTimestampSetting[p]).ms >= CooldownMs )
        => /\ result[p] # "false"
           /\ pc[p] = "returned" => result[p] = "true"

C4_Witness ==
    \E p \in Procs :
        /\ pc[p] = "returned" /\ result[p] = "true"
        /\ lastMoveTimestampSetting[p].t = "utc"
        /\ now[p] - DateParse(lastMoveTimestampSetting[p]).ms = CooldownMs

\* C5: no step replaces the stored last_move_timestamp by an earlier instant.
C5_TimestampNeverDecreases ==
    [][ ( /\ internalData.last_move_timestamp.t = "utc"
          /\ internalData'.last_move_timestamp.t = "utc" )
        => DateParse(internalData'.last_move_timestamp).ms
             >= DateParse(internalData.last_move_timestamp).ms ]_vars

\* C6: an invocation that ended in a failed server call has applied neither
\* of its two writes.
C6_NoPartialCommit ==
    \A p \in Procs : pc[p] = "threw" => writes[p] = {}

\* C7: once a server call of an invocation has failed, the invocation has
\* stopped at that call, its caller has the error, and it has returned
\* neither true nor {validMove: true}.
C7_FailureSurfaced ==
    \A p \in Procs :
        failed[p] # "none" =>
            /\ pc[p] = "threw"
            /\ calls[p][Len(calls[p])] = failed[p]
            /\ result[p] # "true"
            /\ response[p] = "error"

C7_Witness ==
    \E p \in Procs :
        /\ failed[p] = "UpdateUserInternalData"
        /\ handler[p] = "updatePlayerMove"
        /\ writes[p] = {"statistics"}

\* C8: an invocation that reads no last_move_timestamp, or one that does not
\* parse, is not rejected, and when it returns it returns true with both
\* writes applied.
C8_NoPriorMoveAccepted ==
    \A p \in Procs :
        ( /\ CheckedCooldown(p)
          /\ lastMoveTimestampSetting[p].t \in {"absent", "garbage"} )
        => /\ result[p] # "false"
           /\ pc[p] = "returned" =>
                /\ result[p] = "true"
                /\ writes[p] = {"statistics", "internalData"}

C8_Witness ==
    \E p \in Procs :
        /\ pc[p] = "returned" /\ result[p] = "true"
        /\ lastMoveTimestampSetting[p].t = "garbage"
        /\ Len(calls[p]) = 4
        /\ writes[p] = {"statistics", "internalData"}

\* C9: a handler run without a player id or without a usable move payload
\* makes no server call and no write.
C9_MalformedInputNoCall ==
    \A p \in Procs :
        ( /\ handler[p] # "none"
          /\ \/ currentPlayerId[p] = UndefinedId
             \/ ~playerMove[p].def )
        => calls[p] = <<>> /\ writes[p] = {}

\* C10: two invocations with the same now that read the same timestamp are
\* both rejected or both not rejected, whatever their move payloads.
C10_PayloadIndependent ==
    \A p, q \in Procs :
        ( /\ CheckedCooldown(p) /\ CheckedCooldown(q)
          /\ now[p] = now[q]
          /\ lastMoveTimestampSetting[p] = lastMoveTimestampSetting[q] )
        => (result[p] = "false") = (result[q] = "false")

C10_Witness ==
    \E p, q \in Procs :
        /\ p # q
        /\ pc[p] = "returned" /\ pc[q] = "returned"
        /\ Len(calls[p]) = 1 /\ Len(calls[q]) = 1
        /\ now[p] = now[q]
        /\ lastMoveTimestampSetting[p] = lastMoveTimestampSetting[q]
        /\ playerMove[p] # playerMove[q]
        /\ result[p] = "false" /\ result[q] = "false"

\* C11: with the invocations run one after the other, the stored
\* last_move_timestamp parses back to the now of the invocation that was
\* accepted last.
C11_TimestampRoundTrip ==
    ( /\ accepted # <<>>
      /\ internalData.last_move_timestamp.t = "utc" )
    => DateParse(internalData.last_move_timestamp).ms = accepted[Len(accepted)]

\* The number of elements of the sequence s that equal x.
RECURSIVE Count(_, _)
Count(s, x) ==
    IF s = <<>> THEN 0
    ELSE (IF Head(s) = x THEN 1 ELSE 0) + Count(Tail(s), x)

\* C12: RoomEventRaised enters processPlayerMove once when the event type is
\* "playerMove" and otherwise ends with no server call and no write;
\* updatePlayerMove returns {validMove: result} of the same processPlayerMove.
C12_EventDispatch ==
    \A p \in Procs :
        /\ handler[p] = "RoomEventRaised" =>
             IF playerMove[p].def /\ playerMove[p].eventType = "playerMove"
             THEN /\ pc[p] # "idle"
                  /\ Count(calls[p], "GetUserInternalData")
                       = (IF pc[p] = "GetUserInternalData" THEN 0 ELSE 1)
             ELSE /\ ~InFlight(p)
                  /\ calls[p] = <<>>
                  /\ writes[p] = {}
                  /\ result[p] = "none"
        /\ (handler[p] = "updatePlayerMove" /\ pc[p] = "returned") =>
             response[p] = "{validMove:" \o result[p] \o "}"

C12_Witness ==
    \E p, q \in Procs :
        /\ handler[p] = "RoomEventRaised" /\ playerMove[p] = Chat
        /\ pc[p] = "returned"
        /\ handler[q] = "RoomEventRaised" /\ playerMove[q] = MoveN
        /\ pc[q] = "returned" /\ result[q] = "true"

\* C13: AddFriendToPlayer returns true exactly when AddFriend succeeded,
\* false exactly when it failed with UsersAlreadyFriends or
\* ConcurrentEditError, and throws for every other failure; of two calls
\* that have added the same two players to each other, at most one has
\* returned true.
C13_AddFriendResult ==
    /\ \A p \in Procs :
         addFriend[p].pc \in {"returned", "threw"} =>
           /\ (addFriend[p].ret = "true") = (addFriend[p].errorCode = NoError)
           /\ (addFriend[p].ret = "false") =
                (addFriend[p].errorCode \in {UsersAlreadyFriends, ConcurrentEditError})
           /\ (addFriend[p].pc = "threw") =
                (addFriend[p].errorCode \notin
                   {NoError, UsersAlreadyFriends, ConcurrentEditError})
    /\ \A p, q \in Procs :
         ( /\ p # q
           /\ {addFriend[p].playerId, addFriend[p].friendId}
                = {addFriend[q].playerId, addFriend[q].friendId}
           /\ addFriend[p].pc = "returned" /\ addFriend[q].pc = "returned" )
         => ~(addFriend[p].ret = "true" /\ addFriend[q].ret = "true")

C13_Witness ==
    \E p, q \in Procs :
        /\ addFriend[p].playerId = addFriend[q].friendId
        /\ addFriend[p].friendId = addFriend[q].playerId
        /\ addFriend[p].pc = "returned" /\ addFriend[p].ret = "true"
        /\ addFriend[q].pc = "returned" /\ addFriend[q].ret = "false"
        /\ addFriend[q].errorCode = ConcurrentEditError

====
